---- MODULE Spec2Model ----
(***************************************************************************)
(* A state-machine model of the ConditionalTokens contract wrapper         *)
(* (packages/valory/contracts/conditional_tokens/contract.py).             *)
(*                                                                         *)
(* One caller invokes one public operation at a time.  The only internal   *)
(* concurrency is the single worker thread that execute_with_timeout       *)
(* starts; the caller and the worker are interleaved, and a discrete clock *)
(* `now` advances only while the caller is blocked.                        *)
(*                                                                         *)
(* Python objects are records tagged with their type in field t.           *)
(***************************************************************************)
EXTENDS Integers, Sequences, FiniteSets, TLC

VARIABLES
    pc,          \* where the caller is: "idle", "ewt_wait", "ewt_shutdown", "uh_*", "done"
    opName,      \* the public operation the caller invoked
    futuresTimeoutIsBuiltin, \* whether concurrent.futures.TimeoutError is the builtin TimeoutError
    now,         \* wall clock
    deadline,    \* the instant future.result(timeout=timeout) gives up
    timeout,     \* the timeout argument of execute_with_timeout
    worker,      \* the executor's only thread: "none", "running", "done"
    started,     \* how many times func was started by the current invocation
    outcome,     \* what func did when it completed (a return or a raise)
    intent,      \* what func meant by it: "value", "error" or "fault"
    pending,     \* what execute_with_timeout is about to return, held during __exit__
    timedOut,    \* future.result raised its timeout
    blocks,      \* <<from_block, to_block>> of check_redeemed
    ret,         \* what the public operation handed to its caller
    arg,         \* the count / outcome_slot_count argument
    uh,          \* the locals of get_user_holdings
    call_args,   \* the arguments of a build_* or calculate_* call
    round,       \* DecisionMakerAbciApp: the current round
    prevRound,   \* DecisionMakerAbciApp: the round the last event was processed in
    lastEvent,   \* DecisionMakerAbciApp: the last event processed
    trail,       \* DecisionMakerAbciApp: the rounds left so far, oldest first
    bet,         \* the fields of a Bet
    betPc        \* the Bet's construction: "none", "fields_set", "constructed"

vars == <<pc, opName, futuresTimeoutIsBuiltin, now, deadline, timeout, worker,
          started, outcome, intent, pending, timedOut, blocks, ret, arg, uh,
          call_args, round, prevRound, lastEvent, trail, bet, betPc>>

(* the state of the round application and of the Bet under construction *)
skill_vars == <<round, prevRound, lastEvent, trail, bet, betPc>>

(* what the steps of a running contract operation leave alone *)
fixed_vars == <<futuresTimeoutIsBuiltin, call_args, skill_vars>>

----------------------------------------------------------------------------
(* Bounds of the model *)

MaxTime == 3        \* the clock stops here
MaxTimeout == 2     \* timeouts are 1..MaxTimeout
MaxEntries == 2     \* log entries a query returns
MaxPayout == 2      \* payouts are 0..MaxPayout
MaxCount == 3       \* outcome slot counts are -MaxCount..MaxCount
MaxBalance == 1     \* balances are 0..MaxBalance
MaxAmount == 2      \* amounts to merge are 1..MaxAmount
MaxTrail == 4       \* events a run of the round application processes
MaxLen == 3         \* a Bet's lists have 0..MaxLen elements, its slot count is 0..MaxLen

----------------------------------------------------------------------------
(* Python values *)

NoneV == [t |-> "none"]
StrV(s) == [t |-> "str", s |-> s]
ListV(l) == [t |-> "list", l |-> l]
IntV(n) == [t |-> "int", n |-> n]
BytesV(b) == [t |-> "bytes", b |-> b]

isinstance_str(data) == data.t = "str"
isinstance_bytes(data) == data.t = "bytes"

Returned(v) == [kind |-> "return", val |-> v]
Raised(e) == [kind |-> "raise", exc |-> e]
NoOutcome == [kind |-> "none"]

(* a Python 2-tuple (value, error) *)
Pair(v, e) == [value |-> v, err |-> e]

----------------------------------------------------------------------------
(* bytes.hex(): two lowercase hexadecimal digits per byte *)

HexDigit(n) ==
    CASE n = 0 -> "0" [] n = 1 -> "1" [] n = 2 -> "2" [] n = 3 -> "3"
      [] n = 4 -> "4" [] n = 5 -> "5" [] n = 6 -> "6" [] n = 7 -> "7"
      [] n = 8 -> "8" [] n = 9 -> "9" [] n = 10 -> "a" [] n = 11 -> "b"
      [] n = 12 -> "c" [] n = 13 -> "d" [] n = 14 -> "e" [] n = 15 -> "f"

RECURSIVE hex(_)
hex(b) ==
    IF b = <<>> THEN ""
    ELSE HexDigit(Head(b) \div 16) \o HexDigit(Head(b) % 16) \o hex(Tail(b))

----------------------------------------------------------------------------
(* execute_with_timeout *)

TimeoutMessage(t) == "The RPC didn't respond in " \o ToString(t) \o "."

(* the isinstance check left out: whatever func returned is the value *)
SplitResultNeverError(data) == Pair(data, NoneV)

(* the branches the wrong way round: whatever func returned is the error *)
SplitResultAlwaysError(data) == Pair(NoneV, data)

(* lines 61-66: a str result is the error, anything else the value *)
SplitResult(data) ==
    IF isinstance_str(data) THEN Pair(NoneV, data) ELSE Pair(data, NoneV)

(* lines 53-59: future.result(timeout=timeout) gave up.  `except TimeoutError`
   names the builtin; future.result raises concurrent.futures.TimeoutError,
   which is the builtin only on interpreters where the two are one class. *)
OnFutureTimeout(t, isBuiltin) ==
    IF isBuiltin
    THEN Returned(Pair(NoneV, StrV(TimeoutMessage(t))))
    ELSE Raised("concurrent.futures.TimeoutError")

(* line 55, then 61-66: future.result hands over what func did; an exception
   of func is re-raised in the caller *)
OnFutureResult(o) ==
    IF o.kind = "raise" THEN o ELSE Returned(SplitResult(o.val))

----------------------------------------------------------------------------
(* check_redeemed *)

Blocks == {<<100, 200>>, <<0, 900>>}

ReadTimeoutErrors == {"urllib3.ReadTimeoutError", "requests.ReadTimeout"}
OtherErrors == {"ContractLogicError"}

FilterTimeoutMessage(b) ==
    "The RPC timed out! This usually happens if the filtering is too wide. "
    \o "The service tried to filter from block " \o ToString(b[1])
    \o " to " \o ToString(b[2]) \o ". "
    \o "If this issue persists, please try lowering the EVENT_FILTERING_BATCH_SIZE!"

(* dict.get(key, default) *)
Get(d, k, default) == IF k \in DOMAIN d THEN d[k] ELSE default

EmptyDict == [k \in {} |-> 0]

ConditionIds == {BytesV(<<170>>), BytesV(<<11>>), StrV("aa")}

(* the log entries a node may answer with: with or without args, and args
   with or without conditionId and payout *)
EntrySet ==
    {[args |-> [conditionId |-> c, payout |-> p]] :
        c \in ConditionIds, p \in 0..MaxPayout}
    \cup {[args |-> [conditionId |-> c]] : c \in {BytesV(<<11>>)}}
    \cup {[args |-> [payout |-> p]] : p \in {MaxPayout}}
    \cup {[blockNumber |-> 1]}

RECURSIVE SeqsUpTo(_, _)
SeqsUpTo(S, n) ==
    IF n = 0 THEN {<<>>}
    ELSE LET shorter == SeqsUpTo(S, n - 1)
         IN shorter \cup {Append(q, e) : q \in shorter, e \in S}

(* what the transport does to the query of get_redeem_events *)
TransportOutcomes ==
    {[kind |-> "entries", entries |-> es] : es \in SeqsUpTo(EntrySet, MaxEntries)}
    \cup {[kind |-> "raise", exc |-> e] : e \in ReadTimeoutErrors \cup OtherErrors}

(* lines 84-110: the closure handed to execute_with_timeout *)
get_redeem_events(tr, b) ==
    IF tr.kind = "entries" THEN Returned(ListV(tr.entries))
    ELSE IF tr.exc \in ReadTimeoutErrors THEN Returned(StrV(FilterTimeoutMessage(b)))
    ELSE Raised(tr.exc)

(* the fold summing the payouts of a conditionId instead of overwriting *)
RECURSIVE FoldPayoutsSum(_, _)
FoldPayoutsSum(redeemed, payouts) ==
    IF redeemed = <<>> THEN payouts
    ELSE LET args == Get(Head(redeemed), "args", EmptyDict)
             condition_id == Get(args, "conditionId", NoneV)
             payout == Get(args, "payout", 0)
             key == IF isinstance_bytes(condition_id)
                    THEN hex(condition_id.b) ELSE condition_id.s
         IN FoldPayoutsSum(Tail(redeemed),
                           IF condition_id # NoneV /\ payout > 0
                           THEN (key :> (Get(payouts, key, 0) + payout)) @@ payouts
                           ELSE payouts)

(* lines 116-124: the fold over the entries, in query order *)
RECURSIVE FoldPayouts(_, _)
FoldPayouts(redeemed, payouts) ==
    IF redeemed = <<>> THEN payouts
    ELSE LET args == Get(Head(redeemed), "args", EmptyDict)
             condition_id == Get(args, "conditionId", NoneV)
             payout == Get(args, "payout", 0)
             key == IF isinstance_bytes(condition_id)
                    THEN hex(condition_id.b) ELSE condition_id.s
         IN FoldPayouts(Tail(redeemed),
                        IF condition_id # NoneV /\ payout > 0
                        THEN (key :> payout) @@ payouts
                        ELSE payouts)

(* lines 112-126: check_redeemed once execute_with_timeout is back *)
CheckRedeemedResult(p) ==
    IF p.kind = "raise" THEN p
    ELSE IF p.val.err # NoneV THEN Returned([error |-> p.val.err.s])
    ELSE Returned([payouts |-> FoldPayouts(p.val.value.l, EmptyDict)])

----------------------------------------------------------------------------
(* get_partitions, lines 336-339: list(map(lambda x: 1 << x, range(count))) *)

(* range(1, count + 1) in place of range(count) *)
get_partitions_from_one(count) == [x \in 1..count |-> 2 ^ x]

get_partitions(count) == [x \in 1..count |-> 2 ^ (x - 1)]

----------------------------------------------------------------------------
(* get_user_holdings: the values it computes with *)

market == "0xmarket"
creator == "0xcreator"
collateral_token == "0xcollateral"

(* ledger_api.api.to_checksum_address: the mixed-case form of an address *)
to_checksum_address(a) ==
    CASE a = "0xmarket" -> "0xMarket"
      [] a = "0xcreator" -> "0xCreator"
      [] a = "0xcollateral" -> "0xCollateral"
      [] a = "0xoracle" -> "0xOracle"

AddrNum(a) ==
    CASE a = "0xMarket" -> 1 [] a = "0xCreator" -> 2 [] a = "0xCollateral" -> 3
      [] a = "0xOracle" -> 4

(* int.from_bytes(b, "big") *)
RECURSIVE from_bytes_big(_)
from_bytes_big(b) ==
    IF b = <<>> THEN 0
    ELSE 256 * from_bytes_big(SubSeq(b, 1, Len(b) - 1)) + b[Len(b)]

(* ledger_api.api.solidity_keccak(["address", "uint256"], [a, n]): a fixed
   function of its arguments to bytes; a small mixing function stands for
   the hash *)
solidity_keccak(a, n) == <<(AddrNum(a) + n) % 256, (3 * n + 1) % 256>>

(* the bytes getCollectionId may answer with *)
CollectionIdBytes == {<<0, 5>>, <<1, 0>>}

UhIdle == [k |-> 0, parts |-> <<>>, collection_id |-> 0, position_id |-> 0,
           holdings |-> <<>>, shares |-> <<>>, log |-> <<>>]

----------------------------------------------------------------------------
(* The state before any call *)

NoArgs == [k \in {} |-> 0]

(* no round application running, no Bet under construction *)
SkillIdle ==
    /\ round = "none"
    /\ prevRound = "none"
    /\ lastEvent = "none"
    /\ trail = <<>>
    /\ bet = NoArgs
    /\ betPc = "none"

(* no contract operation running *)
ContractIdle ==
    /\ pc = "idle"
    /\ opName = "none"
    /\ futuresTimeoutIsBuiltin \in BOOLEAN
    /\ now = 0
    /\ deadline = 0
    /\ timeout = 0
    /\ worker = "none"
    /\ started = 0
    /\ outcome = NoOutcome
    /\ intent = "none"
    /\ pending = NoOutcome
    /\ timedOut = FALSE
    /\ blocks = <<0, 0>>
    /\ ret = NoOutcome
    /\ arg = 0
    /\ uh = UhIdle
    /\ call_args = NoArgs

Init == ContractIdle /\ SkillIdle

exec_vars == <<now, deadline, timeout, worker, started, outcome, intent,
               pending, timedOut>>

----------------------------------------------------------------------------
(* execute_with_timeout, lines 42-66 *)

(* lines 47-51: the executor is created and func submitted to its one thread *)
Submit(t) ==
    /\ worker' = "running"
    /\ started' = started + 1
    /\ timeout' = t
    /\ deadline' = now + t
    /\ pc' = "ewt_wait"

(* a caller runs execute_with_timeout on a func of its own *)
CallExecuteWithTimeout ==
    \E t \in 1..MaxTimeout :
        /\ pc = "idle"
        /\ opName' = "execute_with_timeout"
        /\ Submit(t)
        /\ UNCHANGED <<fixed_vars, now, outcome, intent, pending,
                       timedOut, blocks, ret, arg, uh>>

(* what a func () -> Result<T, str> may do: return a value of any type,
   return an error string, or raise *)
FuncValues == {NoneV, IntV(7), ListV(<<>>), StrV("0xaa")}
ErrorStrings == {StrV("boom"), StrV("")}
FuncOutcomes ==
    {[o |-> Returned(v), intent |-> "value"] : v \in FuncValues}
    \cup {[o |-> Returned(e), intent |-> "error"] : e \in ErrorStrings}
    \cup {[o |-> Raised("RuntimeError"), intent |-> "fault"]}

(* the worker thread finishes the caller's func *)
FuncCompletes ==
    /\ worker = "running"
    /\ opName = "execute_with_timeout"
    /\ \E f \in FuncOutcomes :
        /\ outcome' = f.o
        /\ intent' = f.intent
    /\ worker' = "done"
    /\ UNCHANGED <<pc, opName, fixed_vars, now, deadline, timeout,
                   started, pending, timedOut, blocks, ret, arg, uh>>

(* the worker thread finishes get_redeem_events *)
QueryCompletes ==
    /\ worker = "running"
    /\ opName = "check_redeemed"
    /\ \E tr \in TransportOutcomes :
        LET o == get_redeem_events(tr, blocks)
        IN /\ outcome' = o
           /\ intent' = IF o.kind = "raise" THEN "fault"
                        ELSE IF isinstance_str(o.val) THEN "error" ELSE "value"
    /\ worker' = "done"
    /\ UNCHANGED <<pc, opName, fixed_vars, now, deadline, timeout,
                   started, pending, timedOut, blocks, ret, arg, uh>>

(* line 55: future.result returns (or re-raises) what the worker produced *)
FutureResult ==
    /\ pc = "ewt_wait"
    /\ worker = "done"
    /\ pending' = OnFutureResult(outcome)
    /\ pc' = "ewt_shutdown"
    /\ UNCHANGED <<opName, fixed_vars, now, deadline, timeout,
                   worker, started, outcome, intent, timedOut, blocks, ret, arg, uh>>

(* a retry loop around the wait: on a timeout func is submitted again *)
FutureTimeout_Retry ==
    /\ pc = "ewt_wait"
    /\ worker = "running"
    /\ now >= deadline
    /\ timedOut' = TRUE
    /\ started' = started + 1
    /\ deadline' = now + timeout
    /\ UNCHANGED <<pc, opName, fixed_vars, now, timeout, worker, outcome,
                   intent, pending, blocks, ret, arg, uh>>

(* lines 55-59: the wait of future.result ends at the deadline *)
FutureTimeout ==
    /\ pc = "ewt_wait"
    /\ worker = "running"
    /\ now >= deadline
    /\ timedOut' = TRUE
    /\ pending' = OnFutureTimeout(timeout, futuresTimeoutIsBuiltin)
    /\ pc' = "ewt_shutdown"
    /\ UNCHANGED <<opName, fixed_vars, now, deadline, timeout,
                   worker, started, outcome, intent, blocks, ret, arg, uh>>

(* line 47: leaving the `with` block runs executor.shutdown(wait=True), which
   joins the worker thread; only then does control reach the caller of
   execute_with_timeout, and check_redeemed goes on with lines 112-126 *)
ExecutorExit ==
    /\ pc = "ewt_shutdown"
    /\ worker = "done"
    /\ ret' = IF opName = "check_redeemed" THEN CheckRedeemedResult(pending)
              ELSE pending
    /\ pc' = "done"
    /\ UNCHANGED <<opName, fixed_vars, now, deadline, timeout,
                   worker, started, outcome, intent, pending, timedOut, blocks,
                   arg, uh>>

(* time passes while the caller is blocked and the worker still runs *)
Tick ==
    /\ now < MaxTime
    /\ worker = "running"
    /\ \/ pc = "ewt_wait" /\ now < deadline
       \/ pc = "ewt_shutdown"
    /\ now' = now + 1
    /\ UNCHANGED <<pc, opName, fixed_vars, deadline, timeout,
                   worker, started, outcome, intent, pending, timedOut, blocks,
                   ret, arg, uh>>

----------------------------------------------------------------------------
(* check_redeemed, lines 68-126 *)

CallCheckRedeemed ==
    \E t \in 1..MaxTimeout, b \in Blocks :
        /\ pc = "idle"
        /\ opName' = "check_redeemed"
        /\ blocks' = b
        /\ Submit(t)
        /\ UNCHANGED <<fixed_vars, now, outcome, intent, pending,
                       timedOut, ret, arg, uh>>

----------------------------------------------------------------------------
(* check_resolved, lines 128-141: one unguarded chain read *)

CheckResolvedResult(read) ==
    IF read.kind = "raise" THEN read
    ELSE IF read.val = 0 THEN Returned([resolved |-> FALSE])
    ELSE Returned([resolved |-> TRUE])

ChainReads(values) ==
    {Returned(v) : v \in values} \cup {Raised(e) : e \in OtherErrors}

CallCheckResolved ==
    \E read \in ChainReads(0..MaxPayout) :
        /\ pc = "idle"
        /\ opName' = "check_resolved"
        /\ ret' = CheckResolvedResult(read)
        /\ pc' = "done"
        /\ UNCHANGED <<fixed_vars, exec_vars, blocks, arg, uh>>

----------------------------------------------------------------------------
(* get_partitions as a call *)

CallGetPartitions ==
    \E count \in (0 - MaxCount)..MaxCount :
        /\ pc = "idle"
        /\ opName' = "get_partitions"
        /\ arg' = count
        /\ ret' = Returned(ListV(get_partitions(count)))
        /\ pc' = "done"
        /\ UNCHANGED <<fixed_vars, exec_vars, blocks, uh>>

----------------------------------------------------------------------------
(* get_user_holdings, lines 341-391.  Every chain read is a step of its own:
   the node answers or the call raises, and an exception leaves the method. *)

HoldingsResult(h, sh) == Returned([holdings |-> h, shares |-> sh])

(* lines 354-360: the empty lists and the partition to iterate over *)
CallGetUserHoldings ==
    \E outcome_slot_count \in 0..MaxCount :
        LET parts == get_partitions(outcome_slot_count)
        IN /\ pc = "idle"
           /\ opName' = "get_user_holdings"
           /\ arg' = outcome_slot_count
           /\ uh' = [UhIdle EXCEPT !.k = 1, !.parts = parts]
           /\ IF parts = <<>>
              THEN ret' = HoldingsResult(<<>>, <<>>) /\ pc' = "done"
              ELSE ret' = ret /\ pc' = "uh_collection"
           /\ UNCHANGED <<fixed_vars, exec_vars, blocks>>

(* lines 361-366: getCollectionId(parent_collection_id, condition_id, i).call() *)
UH_GetCollectionId ==
    /\ pc = "uh_collection"
    /\ \E read \in ChainReads(CollectionIdBytes) :
        LET logged == Append(uh.log, [fn |-> "getCollectionId",
                                      indexSet |-> uh.parts[uh.k], res |-> read])
        IN IF read.kind = "raise"
           THEN /\ uh' = [uh EXCEPT !.log = logged]
                /\ ret' = read
                /\ pc' = "done"
           ELSE /\ uh' = [uh EXCEPT !.log = logged,
                                    !.collection_id = from_bytes_big(read.val)]
                /\ ret' = ret
                /\ pc' = "uh_position"
    /\ UNCHANGED <<opName, fixed_vars, exec_vars, blocks, arg>>

(* lines 367-376: the position id is hashed locally *)
UH_PositionId ==
    /\ pc = "uh_position"
    /\ LET a == to_checksum_address(collateral_token)
       IN uh' = [uh EXCEPT
                   !.log = Append(@, [fn |-> "solidity_keccak", address |-> a,
                                      n |-> uh.collection_id]),
                   !.position_id =
                       from_bytes_big(solidity_keccak(a, uh.collection_id))]
    /\ pc' = "uh_market"
    /\ UNCHANGED <<opName, fixed_vars, exec_vars, blocks, ret, arg>>

(* the read wrapped in a try that records 0 and carries on *)
UH_BalanceMarket_Swallow ==
    /\ pc = "uh_market"
    /\ \E read \in ChainReads(0..MaxBalance) :
        LET logged == Append(uh.log, [fn |-> "balanceOf",
                                      owner |-> to_checksum_address(market),
                                      id |-> uh.position_id, res |-> read])
            got == IF read.kind = "raise" THEN 0 ELSE read.val
        IN /\ uh' = [uh EXCEPT !.log = logged, !.holdings = Append(@, got)]
           /\ ret' = ret
           /\ pc' = "uh_creator"
    /\ UNCHANGED <<opName, fixed_vars, exec_vars, blocks, arg>>

(* lines 377-382: holdings.append(balanceOf(market, position_id).call()) *)
UH_BalanceMarket ==
    /\ pc = "uh_market"
    /\ \E read \in ChainReads(0..MaxBalance) :
        LET logged == Append(uh.log, [fn |-> "balanceOf",
                                      owner |-> to_checksum_address(market),
                                      id |-> uh.position_id, res |-> read])
        IN IF read.kind = "raise"
           THEN /\ uh' = [uh EXCEPT !.log = logged]
                /\ ret' = read
                /\ pc' = "done"
           ELSE /\ uh' = [uh EXCEPT !.log = logged,
                                    !.holdings = Append(@, read.val)]
                /\ ret' = ret
                /\ pc' = "uh_creator"
    /\ UNCHANGED <<opName, fixed_vars, exec_vars, blocks, arg>>

(* the second read copied from the first: the market's balance asked twice *)
UH_BalanceCreator_AsksMarket ==
    /\ pc = "uh_creator"
    /\ \E read \in ChainReads(0..MaxBalance) :
        LET logged == Append(uh.log, [fn |-> "balanceOf",
                                      owner |-> to_checksum_address(market),
                                      id |-> uh.position_id, res |-> read])
            sh == Append(uh.shares, read.val)
        IN IF read.kind = "raise"
           THEN /\ uh' = [uh EXCEPT !.log = logged]
                /\ ret' = read
                /\ pc' = "done"
           ELSE IF uh.k = Len(uh.parts)
           THEN /\ uh' = [uh EXCEPT !.log = logged, !.shares = sh]
                /\ ret' = HoldingsResult(uh.holdings, sh)
                /\ pc' = "done"
           ELSE /\ uh' = [uh EXCEPT !.log = logged, !.shares = sh, !.k = @ + 1]
                /\ ret' = ret
                /\ pc' = "uh_collection"
    /\ UNCHANGED <<opName, fixed_vars, exec_vars, blocks, arg>>

(* lines 383-391: shares.append(balanceOf(creator, position_id).call()), then
   the next partition element, or the result after the last *)
UH_BalanceCreator ==
    /\ pc = "uh_creator"
    /\ \E read \in ChainReads(0..MaxBalance) :
        LET logged == Append(uh.log, [fn |-> "balanceOf",
                                      owner |-> to_checksum_address(creator),
                                      id |-> uh.position_id, res |-> read])
            sh == Append(uh.shares, read.val)
        IN IF read.kind = "raise"
           THEN /\ uh' = [uh EXCEPT !.log = logged]
                /\ ret' = read
                /\ pc' = "done"
           ELSE IF uh.k = Len(uh.parts)
           THEN /\ uh' = [uh EXCEPT !.log = logged, !.shares = sh]
                /\ ret' = HoldingsResult(uh.holdings, sh)
                /\ pc' = "done"
           ELSE /\ uh' = [uh EXCEPT !.log = logged, !.shares = sh, !.k = @ + 1]
                /\ ret' = ret
                /\ pc' = "uh_collection"
    /\ UNCHANGED <<opName, fixed_vars, exec_vars, blocks, arg>>

----------------------------------------------------------------------------

(* build_merge_positions_tx, lines 393-420 *)

Reverse(q) == [i \in 1..Len(q) |-> q[Len(q) + 1 - i]]

parent_collection_id == BytesV(<<0>>)

(* instance.encodeABI(fn_name, args): the calldata, kept as the call it encodes *)
encodeABI(fn_name, fn_args) == [fn_name |-> fn_name, args |-> fn_args]

(* a partition handed over by the caller taken in place of the computed one *)
MergePartitionFromKwargs(outcome_slot_count, kwargs) ==
    IF "partition" \in DOMAIN kwargs THEN kwargs.partition
    ELSE get_partitions(outcome_slot_count)

(* line 407: the partition comes from outcome_slot_count; **kwargs is unused *)
MergePartition(outcome_slot_count, kwargs) == get_partitions(outcome_slot_count)

(* the keyword arguments a caller may add: none, or the partition of its
   earlier split in its own ordering *)
MergeKwargs(outcome_slot_count) ==
    {NoArgs, [partition |-> Reverse(get_partitions(outcome_slot_count))]}

CallBuildMergePositionsTx ==
    \E outcome_slot_count \in 0..MaxCount, amount \in 1..MaxAmount,
       condition_id \in {BytesV(<<170>>), BytesV(<<11>>)},
       encoded \in BOOLEAN :
        \E kwargs \in MergeKwargs(outcome_slot_count) :
            LET partition == MergePartition(outcome_slot_count, kwargs)
                data == encodeABI("mergePositions",
                                  <<to_checksum_address(collateral_token),
                                    parent_collection_id, condition_id,
                                    partition, amount>>)
            IN /\ pc = "idle"
               /\ opName' = "build_merge_positions_tx"
               /\ call_args' = [collateral_token |-> collateral_token,
                                parent_collection_id |-> parent_collection_id,
                                condition_id |-> condition_id,
                                outcome_slot_count |-> outcome_slot_count,
                                amount |-> amount,
                                kwargs |-> kwargs]
               /\ ret' = IF encoded THEN Returned([data |-> data])
                         ELSE Raised("ContractLogicError")
               /\ pc' = "done"
               /\ UNCHANGED <<futuresTimeoutIsBuiltin, skill_vars, exec_vars,
                              blocks, arg, uh>>

----------------------------------------------------------------------------

(* calculate_condition_id, lines 261-280 *)

oracle_contract == "0xoracle"
BYTES32 == 32

(* question_id[2:] as its hexadecimal digits; the lengths cover 32 bytes, one
   byte less and more, half a byte more, and nothing *)
QuestionIdDigits == {0, 2 * BYTES32 - 2, 2 * BYTES32, 2 * BYTES32 + 1, 2 * BYTES32 + 2}
QuestionIds == {[i \in 1..n |-> 10] : n \in QuestionIdDigits}

(* bytes.fromhex: two digits a byte; an odd digit left over is a ValueError *)
fromhex(digits) ==
    IF Len(digits) % 2 = 1 THEN Raised("ValueError")
    ELSE Returned([i \in 1..(Len(digits) \div 2) |->
                      16 * digits[2 * i - 1] + digits[2 * i]])

(* ledger_api.api.solidity_keccak(["address", "bytes32", "uint256"], [a, b, n]):
   a small mixing function stands for the hash of the packed values *)
solidity_keccak3(a, b, n) ==
    <<(AddrNum(a) + Len(b) + n) % 256, (3 * n + Len(b) + 1) % 256>>

(* the method: no check of its own on question_id or outcome_slot_count.
   `accepts` is whether the hashing library takes a value that is not 32
   bytes long for a bytes32. *)
calculate_condition_id(question_id, outcome_slot_count, accepts) ==
    LET b == fromhex(question_id)
    IN IF b.kind = "raise" THEN b
       ELSE IF Len(b.val) # BYTES32 /\ ~accepts THEN Raised("ValueError")
       ELSE Returned([condition_id |->
                hex(solidity_keccak3(to_checksum_address(oracle_contract),
                                     b.val, outcome_slot_count))])

CallCalculateConditionId ==
    \E accepts \in BOOLEAN, outcome_slot_count \in 0..MaxCount,
       question_id \in QuestionIds :
        /\ pc = "idle"
        /\ opName' = "calculate_condition_id"
        /\ call_args' = [oracle_contract |-> oracle_contract,
                         question_id |-> question_id,
                         outcome_slot_count |-> outcome_slot_count]
        /\ ret' = calculate_condition_id(question_id, outcome_slot_count, accepts)
        /\ pc' = "done"
        /\ UNCHANGED <<futuresTimeoutIsBuiltin, skill_vars, exec_vars,
                       blocks, arg, uh>>

----------------------------------------------------------------------------

Next ==
    \/ CallExecuteWithTimeout
    \/ FuncCompletes
    \/ FutureResult
    \/ FutureTimeout
    \/ ExecutorExit
    \/ Tick
    \/ CallCheckRedeemed
    \/ QueryCompletes
    \/ CallCheckResolved
    \/ CallGetPartitions
    \/ CallGetUserHoldings
    \/ UH_GetCollectionId
    \/ UH_PositionId
    \/ UH_BalanceMarket
    \/ UH_BalanceCreator
    \/ CallBuildMergePositionsTx
    \/ CallCalculateConditionId

Spec == Init /\ [][Next]_vars

----------------------------------------------------------------------------
(* Properties of execute_with_timeout *)

InExecutor == pc \in {"ewt_wait", "ewt_shutdown"}
CompletedInTime == pc = "done" /\ ~timedOut /\ worker = "done"

(* C1: if func does not complete within the timeout, execute_with_timeout
   hands (None, timeout error) to its caller at the deadline: the caller is
   never still inside execute_with_timeout after the deadline has passed. *)
C1_CallerResumesAtDeadline == InExecutor => now <= deadline

(* C2: when func completes within the timeout and returns an error string s,
   execute_with_timeout returns (None, s): s is the error, the value is None. *)
C2_ErrorStringIsError ==
    (CompletedInTime /\ intent = "error"
        /\ opName \in {"execute_with_timeout", "check_redeemed"})
    => /\ pending = Returned(Pair(NoneV, outcome.val))
       /\ opName = "execute_with_timeout" => ret = pending

C2_Witness ==
    /\ CompletedInTime
    /\ opName = "execute_with_timeout"
    /\ intent = "error"
    /\ outcome = Returned(StrV("boom"))
    /\ ret.val.err = StrV("boom")

(* C3 as stated: when func completes within the timeout and returns a value v,
   execute_with_timeout returns (v, None), for every value v. *)
C3_EveryValueReturned ==
    (CompletedInTime /\ intent = "value" /\ opName = "execute_with_timeout")
    => ret = Returned(Pair(outcome.val, NoneV))

(* C3 amended: when func completes within the timeout and returns a value v
   that is not a str, execute_with_timeout returns (v, None). *)
C3_NonStringValueReturned ==
    (CompletedInTime /\ intent = "value" /\ opName = "execute_with_timeout"
        /\ ~isinstance_str(outcome.val))
    => ret = Returned(Pair(outcome.val, NoneV))

C3_Witness ==
    /\ CompletedInTime
    /\ opName = "execute_with_timeout"
    /\ intent = "value"
    /\ outcome = Returned(IntV(7))
    /\ ret.val.value = IntV(7)

----------------------------------------------------------------------------
(* Properties of check_redeemed *)

(* the key an entry is filed under: the hex form of a bytes conditionId *)
HasConditionId(e) == "args" \in DOMAIN e /\ "conditionId" \in DOMAIN e.args
PayoutOf(e) ==
    IF "args" \in DOMAIN e /\ "payout" \in DOMAIN e.args THEN e.args.payout ELSE 0
KeyOf(e) ==
    IF e.args.conditionId.t = "bytes" THEN hex(e.args.conditionId.b)
    ELSE e.args.conditionId.s

Paying(es) == {i \in 1..Len(es) : HasConditionId(es[i]) /\ PayoutOf(es[i]) > 0}
LastPaying(es, key) ==
    CHOOSE i \in Paying(es) :
        /\ KeyOf(es[i]) = key
        /\ \A j \in Paying(es) : KeyOf(es[j]) = key => j <= i

QuerySucceeded ==
    /\ pc = "done"
    /\ opName = "check_redeemed"
    /\ ~timedOut
    /\ intent = "value"

(* C4: after a successful query, the payouts mapping has exactly the (hex)
   conditionIds of the entries with payout > 0 as keys, each mapped to the
   payout of the last such entry in query order; entries with payout 0 neither
   create nor change a key. *)
C4_PayoutsLastWins ==
    QuerySucceeded =>
        LET es == outcome.val.l
        IN /\ ret.kind = "return"
           /\ DOMAIN ret.val = {"payouts"}
           /\ DOMAIN ret.val.payouts = {KeyOf(es[i]) : i \in Paying(es)}
           /\ \A key \in DOMAIN ret.val.payouts :
                ret.val.payouts[key] = PayoutOf(es[LastPaying(es, key)])

C4_Witness ==
    /\ QuerySucceeded
    /\ Len(outcome.val.l) = 2
    /\ \A i \in {1, 2} :
        /\ HasConditionId(outcome.val.l[i])
        /\ outcome.val.l[i].args.conditionId = BytesV(<<170>>)
    /\ PayoutOf(outcome.val.l[1]) = 1
    /\ PayoutOf(outcome.val.l[2]) = 2
    /\ ret.val.payouts = ("aa" :> 2)

(* C5: when the query hits a transport read-timeout, or the timeout of
   execute_with_timeout elapses, check_redeemed returns a mapping with only
   an `error` field; the query is started once and nothing is folded. *)
C5_TimeoutGivesErrorOnly ==
    (pc = "done" /\ opName = "check_redeemed" /\ (timedOut \/ intent = "error"))
    => /\ ret.kind = "return"
       /\ DOMAIN ret.val = {"error"}
       /\ started = 1

(* C6: the query operations return a mapping (the requested fields, or a
   single `error` field); no failure of the chain client reaches the caller
   as a raised exception. *)
C6_NoFaultEscapes ==
    (pc = "done"
        /\ opName \in {"check_redeemed", "check_resolved", "get_user_holdings"})
    => ret.kind = "return"

----------------------------------------------------------------------------
(* Properties of get_partitions *)

RECURSIVE BitOr(_, _)
BitOr(a, b) ==
    IF a = 0 THEN b
    ELSE IF b = 0 THEN a
    ELSE (IF a % 2 = 1 \/ b % 2 = 1 THEN 1 ELSE 0) + 2 * BitOr(a \div 2, b \div 2)

RECURSIVE BitOrAll(_)
BitOrAll(q) == IF q = <<>> THEN 0 ELSE BitOr(Head(q), BitOrAll(Tail(q)))

RECURSIVE IsPowerOfTwo(_)
IsPowerOfTwo(n) == n = 1 \/ (n > 1 /\ n % 2 = 0 /\ IsPowerOfTwo(n \div 2))

PartitionsReturned == pc = "done" /\ opName = "get_partitions"

(* C7: for n >= 1, get_partitions(n) is [1<<0, ..., 1<<(n-1)]: n values,
   ascending, pairwise distinct, each a power of two, with bitwise OR 2^n - 1. *)
C7_PartitionsArePowersOfTwo ==
    (PartitionsReturned /\ arg >= 1) =>
        /\ ret.kind = "return"
        /\ LET q == ret.val.l
           IN /\ Len(q) = arg
              /\ \A k \in 1..Len(q) : q[k] = 2 ^ (k - 1) /\ IsPowerOfTwo(q[k])
              /\ \A j, k \in 1..Len(q) : j < k => q[j] < q[k]
              /\ BitOrAll(q) = 2 ^ arg - 1

C7_Witness ==
    PartitionsReturned /\ arg = 3 /\ ret = Returned(ListV(<<1, 2, 4>>))

(* C8: for count <= 0, get_partitions fails with InvalidInputError and
   returns no partition. *)
C8_NonPositiveCountFails ==
    (PartitionsReturned /\ arg <= 0) => ret = Raised("InvalidInputError")

----------------------------------------------------------------------------
(* Properties of get_user_holdings *)

HoldingsDone == pc = "done" /\ opName = "get_user_holdings"
Failed(entry) == "res" \in DOMAIN entry /\ entry.res.kind = "raise"
Calls(fn) == {i \in 1..Len(uh.log) : uh.log[i].fn = fn}

(* C9: with n >= 1 and every read succeeding, get_user_holdings makes n
   getCollectionId calls, n position-id hashes and 2n balanceOf calls, per
   partition element 1<<k in order: collection id, position id, market's
   balance, creator's balance; holdings and shares have length n and hold, at
   k, the two balances read for element 1<<k. *)
C9_HoldingsPerPartition ==
    (HoldingsDone /\ arg >= 1 /\ ret.kind = "return") =>
        /\ Cardinality(Calls("getCollectionId")) = arg
        /\ Cardinality(Calls("solidity_keccak")) = arg
        /\ Cardinality(Calls("balanceOf")) = 2 * arg
        /\ Len(uh.log) = 4 * arg
        /\ Len(ret.val.holdings) = arg
        /\ Len(ret.val.shares) = arg
        /\ \A k \in 1..arg :
            LET c == uh.log[4 * (k - 1) + 1]
                h == uh.log[4 * (k - 1) + 2]
                m == uh.log[4 * (k - 1) + 3]
                s == uh.log[4 * (k - 1) + 4]
                pid == from_bytes_big(solidity_keccak(h.address, h.n))
            IN /\ c.fn = "getCollectionId" /\ c.indexSet = 2 ^ (k - 1)
               /\ h.fn = "solidity_keccak"
               /\ h.address = "0xCollateral"
               /\ h.n = from_bytes_big(c.res.val)
               /\ m.fn = "balanceOf" /\ m.owner = "0xMarket" /\ m.id = pid
               /\ s.fn = "balanceOf" /\ s.owner = "0xCreator" /\ s.id = pid
               /\ ret.val.holdings[k] = m.res.val
               /\ ret.val.shares[k] = s.res.val

C9_Witness ==
    /\ HoldingsDone
    /\ arg = 2
    /\ ret.kind = "return"
    /\ ret.val.holdings = <<1, 0>>
    /\ ret.val.shares = <<0, 1>>
    /\ Len(uh.log) = 8

(* C10: a failing chain read ends get_user_holdings at that read: it is the
   last read made, the exception reaches the caller, and no result with
   holdings or shares is returned; a returned result is never partial. *)
C10_FailFast ==
    /\ \A i \in 1..Len(uh.log) :
        Failed(uh.log[i]) => /\ i = Len(uh.log)
                             /\ pc = "done"
                             /\ ret = uh.log[i].res
    /\ (HoldingsDone /\ ret.kind = "return") =>
        /\ Len(ret.val.holdings) = arg
        /\ Len(ret.val.shares) = arg

C10_Witness ==
    /\ HoldingsDone
    /\ arg = 3
    /\ ret.kind = "raise"
    /\ Len(uh.log) = 7
    /\ uh.log[7].fn = "balanceOf"
    /\ uh.log[7].owner = "0xMarket"
    /\ Failed(uh.log[7])
    /\ Len(uh.holdings) = 1

----------------------------------------------------------------------------
(* Properties of build_merge_positions_tx *)

MergeBuilt ==
    pc = "done" /\ opName = "build_merge_positions_tx" /\ ret.kind = "return"

(* C11: build_merge_positions_tx encodes mergePositions with the partition
   computed from outcome_slot_count alone, [1, 2, ..., 2^(n-1)] ascending,
   whatever partition the caller used before and whatever the other
   arguments; collateral token, parentCollectionId, conditionId and amount
   are encoded in that order. *)
C11_MergePartitionRegenerated ==
    MergeBuilt =>
        LET a == ret.val.data.args
            n == call_args.outcome_slot_count
        IN /\ DOMAIN ret.val = {"data"}
           /\ ret.val.data.fn_name = "mergePositions"
           /\ Len(a) = 5
           /\ a[1] = "0xCollateral"
           /\ a[2] = call_args.parent_collection_id
           /\ a[3] = call_args.condition_id
           /\ a[4] = [k \in 1..n |-> 2 ^ (k - 1)]
           /\ \A j, k \in 1..Len(a[4]) : j < k => a[4][j] < a[4][k]
           /\ a[5] = call_args.amount

C11_Witness ==
    /\ MergeBuilt
    /\ call_args.outcome_slot_count = 3
    /\ call_args.kwargs = [partition |-> <<4, 2, 1>>]
    /\ ret.val.data.args[4] = <<1, 2, 4>>

----------------------------------------------------------------------------
(* Properties of calculate_condition_id *)

ConditionIdDone == pc = "done" /\ opName = "calculate_condition_id"

(* C12: calculate_condition_id fails whenever questionId is not exactly 32
   bytes or outcomeSlotCount is zero: it raises (an InvalidInputError) and
   never returns an identifier for such inputs. *)
C12_InvalidInputRejected ==
    (ConditionIdDone
        /\ \/ Len(call_args.question_id) # 2 * BYTES32
           \/ call_args.outcome_slot_count = 0)
    => ret.kind = "raise"

----------------------------------------------------------------------------
(* Properties of the executor's worker *)

ExecutorUsed == opName \in {"execute_with_timeout", "check_redeemed"}

(* C13: an invocation of execute_with_timeout starts func exactly once, on
   the executor's one worker; func is not started again after a timeout or
   after it returned an error string. *)
C13_StartedExactlyOnce ==
    /\ ExecutorUsed => started = 1 /\ worker \in {"running", "done"}
    /\ ~ExecutorUsed => started = 0 /\ worker = "none"

C13_Witness ==
    /\ pc = "done"
    /\ opName = "execute_with_timeout"
    /\ timedOut
    /\ intent = "error"
    /\ started = 1

----------------------------------------------------------------------------
(* DecisionMakerAbciApp, decision_maker_abci/rounds.py *)

contract_vars == <<pc, opName, futuresTimeoutIsBuiltin, now, deadline, timeout,
                   worker, started, outcome, intent, pending, timedOut, blocks,
                   ret, arg, uh, call_args>>

initial_states ==
    {"SamplingRound", "HandleFailedTxRound", "DecisionReceiveRound", "RedeemRound"}

final_states ==
    {"FinishedDecisionMakerRound", "FinishedWithoutDecisionRound",
     "FinishedWithoutRedeemingRound", "RefillRequiredRound", "ImpossibleRound"}

NoTransitions == [e \in {} |-> "none"]

(* the table with HandleFailedTxRound's NO_OP leading to the bet placement *)
transition_function_bet_after_no_op ==
    [SamplingRound |->
        [DONE |-> "DecisionRequestRound",
         NONE |-> "FinishedWithoutDecisionRound",
         NO_MAJORITY |-> "SamplingRound",
         ROUND_TIMEOUT |-> "SamplingRound"],
     DecisionRequestRound |->
        [DONE |-> "FinishedDecisionMakerRound",
         SLOTS_UNSUPPORTED_ERROR |-> "BlacklistingRound",
         NO_MAJORITY |-> "DecisionRequestRound",
         ROUND_TIMEOUT |-> "DecisionRequestRound",
         NONE |-> "ImpossibleRound"],
     DecisionReceiveRound |->
        [DONE |-> "BetPlacementRound",
         MECH_RESPONSE_ERROR |-> "DecisionReceiveRound",
         NO_MAJORITY |-> "DecisionReceiveRound",
         TIE |-> "BlacklistingRound",
         UNPROFITABLE |-> "BlacklistingRound",
         ROUND_TIMEOUT |-> "BlacklistingRound"],
     BlacklistingRound |->
        [DONE |-> "FinishedWithoutDecisionRound",
         NONE |-> "ImpossibleRound",
         NO_MAJORITY |-> "BlacklistingRound",
         ROUND_TIMEOUT |-> "BlacklistingRound",
         FETCH_ERROR |-> "ImpossibleRound"],
     BetPlacementRound |->
        [DONE |-> "FinishedDecisionMakerRound",
         INSUFFICIENT_BALANCE |-> "RefillRequiredRound",
         NO_MAJORITY |-> "BetPlacementRound",
         ROUND_TIMEOUT |-> "BetPlacementRound",
         NONE |-> "ImpossibleRound"],
     RedeemRound |->
        [DONE |-> "FinishedDecisionMakerRound",
         NO_REDEEMING |-> "FinishedWithoutRedeemingRound",
         NO_MAJORITY |-> "RedeemRound",
         ROUND_TIMEOUT |-> "RedeemRound",
         NONE |-> "ImpossibleRound"],
     HandleFailedTxRound |->
        [BLACKLIST |-> "BlacklistingRound",
         NO_OP |-> "BetPlacementRound",
         NO_MAJORITY |-> "HandleFailedTxRound"],
     FinishedDecisionMakerRound |-> NoTransitions,
     FinishedWithoutDecisionRound |-> NoTransitions,
     FinishedWithoutRedeemingRound |-> NoTransitions,
     RefillRequiredRound |-> NoTransitions,
     ImpossibleRound |-> NoTransitions]

(* lines 130-187 *)
transition_function ==
    [SamplingRound |->
        [DONE |-> "DecisionRequestRound",
         NONE |-> "FinishedWithoutDecisionRound",
         NO_MAJORITY |-> "SamplingRound",
         ROUND_TIMEOUT |-> "SamplingRound"],
     DecisionRequestRound |->
        [DONE |-> "FinishedDecisionMakerRound",
         SLOTS_UNSUPPORTED_ERROR |-> "BlacklistingRound",
         NO_MAJORITY |-> "DecisionRequestRound",
         ROUND_TIMEOUT |-> "DecisionRequestRound",
         NONE |-> "ImpossibleRound"],
     DecisionReceiveRound |->
        [DONE |-> "BetPlacementRound",
         MECH_RESPONSE_ERROR |-> "DecisionReceiveRound",
         NO_MAJORITY |-> "DecisionReceiveRound",
         TIE |-> "BlacklistingRound",
         UNPROFITABLE |-> "BlacklistingRound",
         ROUND_TIMEOUT |-> "BlacklistingRound"],
     BlacklistingRound |->
        [DONE |-> "FinishedWithoutDecisionRound",
         NONE |-> "ImpossibleRound",
         NO_MAJORITY |-> "BlacklistingRound",
         ROUND_TIMEOUT |-> "BlacklistingRound",
         FETCH_ERROR |-> "ImpossibleRound"],
     BetPlacementRound |->
        [DONE |-> "FinishedDecisionMakerRound",
         INSUFFICIENT_BALANCE |-> "RefillRequiredRound",
         NO_MAJORITY |-> "BetPlacementRound",
         ROUND_TIMEOUT |-> "BetPlacementRound",
         NONE |-> "ImpossibleRound"],
     RedeemRound |->
        [DONE |-> "FinishedDecisionMakerRound",
         NO_REDEEMING |-> "FinishedWithoutRedeemingRound",
         NO_MAJORITY |-> "RedeemRound",
         ROUND_TIMEOUT |-> "RedeemRound",
         NONE |-> "ImpossibleRound"],
     HandleFailedTxRound |->
        [BLACKLIST |-> "BlacklistingRound",
         NO_OP |-> "RedeemRound",
         NO_MAJORITY |-> "HandleFailedTxRound"],
     FinishedDecisionMakerRound |-> NoTransitions,
     FinishedWithoutDecisionRound |-> NoTransitions,
     FinishedWithoutRedeemingRound |-> NoTransitions,
     RefillRequiredRound |-> NoTransitions,
     ImpossibleRound |-> NoTransitions]

(* the application starts in one of its declared initial states *)
FsmInit ==
    /\ ContractIdle
    /\ round \in initial_states
    /\ prevRound = "none"
    /\ lastEvent = "none"
    /\ trail = <<>>
    /\ bet = NoArgs
    /\ betPc = "none"

(* an event the current round has an entry for moves the application on *)
ProcessEvent ==
    /\ round \in DOMAIN transition_function
    /\ Len(trail) < MaxTrail
    /\ \E event \in DOMAIN transition_function[round] :
        /\ round' = transition_function[round][event]
        /\ lastEvent' = event
    /\ prevRound' = round
    /\ trail' = Append(trail, round)
    /\ UNCHANGED <<contract_vars, bet, betPc>>

FsmNext == ProcessEvent

SpecFsm == FsmInit /\ [][FsmNext]_vars

(* C14: from any declared initial state and under any sequence of events,
   BetPlacementRound is entered from another round only by the DONE event of
   DecisionReceiveRound, so only after a decision was received; and no round
   that was ever left is a final state. *)
C14_BetOnlyAfterDecision ==
    /\ (round = "BetPlacementRound" /\ prevRound # "BetPlacementRound")
        => (prevRound = "DecisionReceiveRound" /\ lastEvent = "DONE")
    /\ round = "BetPlacementRound"
        => \E i \in 1..Len(trail) : trail[i] = "DecisionReceiveRound"
    /\ \A i \in 1..Len(trail) : trail[i] \notin final_states

C14_Witness ==
    /\ round = "FinishedDecisionMakerRound"
    /\ prevRound = "BetPlacementRound"
    /\ Len(trail) >= 3
    /\ trail[Len(trail) - 1] = "DecisionReceiveRound"
    /\ trail[1] = "HandleFailedTxRound" \/ trail[1] = "DecisionReceiveRound"

----------------------------------------------------------------------------
(* Bet, market_manager_abci/bets.py *)

EnumV(name) == [t |-> "BetStatus", name |-> name]

(* BetStatus(value): auto() numbers the members from 1 *)
BetStatus(value) ==
    CASE value = 1 -> Returned(EnumV("UNPROCESSED"))
      [] value = 2 -> Returned(EnumV("PROCESSED"))
      [] value = 3 -> Returned(EnumV("BLACKLISTED"))
      [] OTHER -> Raised("ValueError")

ListOfLen(n, x) == ListV([i \in 1..n |-> x])

(* the fields the generated __init__ has set when __post_init__ runs *)
BetFields ==
    [outcomeSlotCount : 0..MaxLen,
     outcomeTokenAmounts : {ListOfLen(n, 1) : n \in 0..MaxLen},
     outcomeTokenMarginalPrices : {ListOfLen(n, 5) : n \in 0..MaxLen},
     outcomes : {NoneV, StrV("null")} \cup {ListOfLen(n, "o") : n \in 0..MaxLen},
     status : {EnumV("UNPROCESSED"), IntV(2), IntV(0)}]

(* len() of a str or a list *)
len(x) == IF x.t = "str" THEN 4 ELSE Len(x.l)

(* lines 60-67: a != b != c != d is (a != b) and (b != c) and (c != d) *)
OutcomesRejected(b) ==
    \/ b.outcomes = NoneV
    \/ b.outcomes = StrV("null")
    \/ /\ len(b.outcomes) # len(b.outcomeTokenAmounts)
       /\ len(b.outcomeTokenAmounts) # len(b.outcomeTokenMarginalPrices)
       /\ len(b.outcomeTokenMarginalPrices) # b.outcomeSlotCount

BetInit ==
    /\ ContractIdle
    /\ round = "none"
    /\ prevRound = "none"
    /\ lastEvent = "none"
    /\ trail = <<>>
    /\ bet \in BetFields
    /\ betPc = "fields_set"

(* lines 58-71: __post_init__ *)
PostInit ==
    /\ betPc = "fields_set"
    /\ LET outcomes == IF OutcomesRejected(bet) THEN NoneV ELSE bet.outcomes
           status == IF bet.status.t = "int" THEN BetStatus(bet.status.n)
                     ELSE Returned(bet.status)
       IN IF status.kind = "raise"
          THEN /\ bet' = [bet EXCEPT !.outcomes = outcomes]
               /\ betPc' = "failed"
          ELSE /\ bet' = [bet EXCEPT !.outcomes = outcomes, !.status = status.val]
               /\ betPc' = "constructed"
    /\ UNCHANGED <<contract_vars, round, prevRound, lastEvent, trail>>

BetNext == PostInit

SpecBet == BetInit /\ [][BetNext]_vars

(* C15: a constructed Bet has outcomes None, or a list as long as
   outcomeTokenAmounts and outcomeTokenMarginalPrices and of outcomeSlotCount
   elements; if any of the four sizes differs from the others, outcomes is
   None. *)
C15_OutcomesConsistent ==
    betPc = "constructed" =>
        \/ bet.outcomes = NoneV
        \/ /\ bet.outcomes.t = "list"
           /\ Len(bet.outcomes.l) = Len(bet.outcomeTokenAmounts.l)
           /\ Len(bet.outcomes.l) = Len(bet.outcomeTokenMarginalPrices.l)
           /\ Len(bet.outcomes.l) = bet.outcomeSlotCount

====
